---- MODULE Spec2Model ----
(***************************************************************************)
(* Model of host/lib/load_modules.cpp: the start-up block that reads       *)
(* UHD_MODULE_PATH, splits it at the path separator and walks every entry  *)
(* recursively, handing each non-directory to the platform's module loader.*)
(*                                                                         *)
(* Strings are sequences of one-character strings.  The filesystem is a    *)
(* graph of inodes; a directory entry may be a symbolic link, which may    *)
(* dangle or lead back to an ancestor directory.  The recursion of         *)
(* load_path is an explicit stack of frames.                               *)
(***************************************************************************)
EXTENDS Naturals, Sequences, FiniteSets

\* ------------------------------------------------------------------ bounds

\* Largest number of entries joined into the environment variable's value.
MaxEntries == 2

\* Number of symbolic links the operating system follows in one path
\* resolution before it fails with ELOOP.
SymloopMax == 2

\* ------------------------------------------------------------- filesystem

NoNode == "none"

Root == "root"
NodeD == "d"
NodeB == "b"
NodeC == "c"
NodeE == "e"

Nodes == {Root, NodeD, NodeB, NodeC, NodeE}

Entry(n, t, l) == [name |-> n, target |-> t, link |-> l]

\* /d holds the file b and an entry c whose nature varies:
\*   "dir"      c is a directory holding the file e
\*   "noperm"   c is a directory that cannot be opened for reading
\*   "cycle"    c is a symbolic link to /d itself
\*   "dangling" c is a symbolic link to nothing
CKinds == {"dir", "noperm", "cycle", "dangling"}

CEntry(k) ==
    CASE k \in {"dir", "noperm"} -> Entry("c", NodeC, FALSE)
      [] k = "cycle"             -> Entry("c", NodeD, TRUE)
      [] k = "dangling"          -> Entry("c", NoNode, TRUE)

MkFs(k) ==
    [ kind     |-> [n \in Nodes |-> IF n \in {Root, NodeD, NodeC} THEN "dir" ELSE "file"],
      readable |-> IF k = "noperm" THEN {Root, NodeD} ELSE {Root, NodeD, NodeC},
      entries  |-> [n \in Nodes |->
                      CASE n = Root  -> {Entry("d", NodeD, FALSE)}
                        [] n = NodeD -> {Entry("b", NodeB, FALSE), CEntry(k)}
                        [] n = NodeC -> {Entry("e", NodeE, FALSE)}
                        [] OTHER     -> {}] ]

FileSystems == {MkFs(k) : k \in CKinds}

Dirs(f) == {n \in Nodes : f.kind[n] = "dir"}
Files(f) == {n \in Nodes : f.kind[n] = "file"}

Perms(S) == {s \in [1..Cardinality(S) -> S] : \A i, j \in 1..Cardinality(S) : s[i] = s[j] => i = j}

\* The orders in which directory_iterator may enumerate each directory.
OrdersOf(f) ==
    {o \in [Dirs(f) -> UNION {Perms(f.entries[d]) : d \in Dirs(f)}] :
        \A d \in Dirs(f) : o[d] \in Perms(f.entries[d])}

\* ---------------------------------------------------------------- strings

Variants == {"dlfcn", "windows", "unsupported"}

\* static const std::string env_path_sep
env_path_sep(v) == IF v = "windows" THEN ";" ELSE ":"

RECURSIVE SplitAt(_, _)
\* boost::split(result, s, is_any_of(sep)), token compression off: one token
\* more than there are separators, empty tokens kept.
SplitAt(s, sep) ==
    IF s = <<>> THEN << <<>> >>
    ELSE LET rest == SplitAt(Tail(s), sep) IN
         IF Head(s) = sep THEN << <<>> >> \o rest
         ELSE << <<Head(s)>> \o Head(rest) >> \o Tail(rest)

RECURSIVE JoinWith(_, _)
JoinWith(es, sep) ==
    IF es = <<>> THEN <<>>
    ELSE IF Len(es) = 1 THEN es[1]
    ELSE es[1] \o <<sep>> \o JoinWith(Tail(es), sep)

\* The current working directory of the process.
Cwd == <<"/">>

\* fs::path::is_complete
is_complete(p) == p # <<>> /\ p[1] = "/"

\* fs::path operator/
PathAppend(p, q) ==
    IF p # <<>> /\ p[Len(p)] = "/" THEN p \o q ELSE p \o <<"/">> \o q

\* fs::system_complete(fs::path(module_path))
system_complete(p) == IF p = <<>> \/ is_complete(p) THEN p ELSE PathAppend(Cwd, p)

NonEmpty(x) == x # <<>>

Components(p) == SelectSeq(SplitAt(p, "/"), NonEmpty)

\* The values UHD_MODULE_PATH takes: up to MaxEntries of these entries,
\* joined with ":".  "d;d" is one missing path where the separator is ":"
\* and the directory d twice where it is ";".
EntryChoices ==
    { <<>>, <<"d">>, <<"/", "d", "/", "b">>, <<"d", ";", "d">> }

EnvValues ==
    {JoinWith(es, ":") : es \in UNION {[1..n -> EntryChoices] : n \in 0..MaxEntries}}

\* ------------------------------------------------------------------ state

VARIABLES
    envSet,           \* whether UHD_MODULE_PATH is set in the environment
    env,              \* its value
    fs,               \* the filesystem
    order,            \* the enumeration order of each directory
    variant,          \* the build: which load_module was compiled in
    valid,            \* the files that are well-formed loadable modules
    pc,               \* position of the static block
    env_module_path,  \* the parsed option value
    module_paths,     \* the split value
    idx,              \* BOOST_FOREACH position in module_paths
    stack,            \* active load_path calls, innermost last
    visits,           \* every path load_path was called on
    attempts,         \* every load_module call, its outcome, and the
                      \* module_paths position it was made under
    diags,            \* the lines written to std::cerr
    fscalls,          \* every filesystem call made
    loaded,           \* the modules resident in the process
    run,              \* 1: first scan, 2: the scan run again
    prev              \* what the first scan did

inputs == <<envSet, env, fs, order, valid>>
control == <<pc, env_module_path, module_paths, idx, stack>>
logs == <<visits, attempts, diags, fscalls>>
vars == <<envSet, env, fs, order, variant, valid, pc, env_module_path, module_paths,
          idx, stack, visits, attempts, diags, fscalls, loaded, run, prev>>

\* ------------------------------------------------------- path resolution

RECURSIVE ResolveFrom(_, _, _)
\* stat(2) on the remaining components, from inode n, having followed
\* `links` symbolic links so far.
ResolveFrom(n, comps, links) ==
    IF comps = <<>> THEN [err |-> "ok", node |-> n]
    ELSE IF fs.kind[n] # "dir" THEN [err |-> "ENOTDIR", node |-> NoNode]
    ELSE LET es == {e \in fs.entries[n] : <<e.name>> = Head(comps)} IN
         IF es = {} THEN [err |-> "ENOENT", node |-> NoNode]
         ELSE LET e == CHOOSE x \in es : TRUE
                  l == IF e.link THEN links + 1 ELSE links
              IN  IF l > SymloopMax THEN [err |-> "ELOOP", node |-> NoNode]
                  ELSE IF e.target = NoNode THEN [err |-> "ENOENT", node |-> NoNode]
                  ELSE ResolveFrom(e.target, Tail(comps), l)

Stat(p) ==
    IF p = <<>> THEN [err |-> "ENOENT", node |-> NoNode]
    ELSE ResolveFrom(Root, Components(p), 0)

\* The inodes the entries of the directories in S lead to.
Targets(S) == {e.target : e \in UNION {fs.entries[n] : n \in S}} \ {NoNode}

RECURSIVE ReachableIn(_, _)
ReachableIn(S, k) ==
    IF k = 0 THEN S ELSE ReachableIn(S \cup Targets(S), k - 1)

\* fs::exists(path): "true", "false", or "throw" (a filesystem_error for
\* any error other than the not-found ones).
exists(p) ==
    LET err == Stat(p).err IN
    IF err = "ok" THEN "true"
    ELSE IF err \in {"ENOENT", "ENOTDIR"} THEN "false"
    ELSE "throw"

\* fs::is_directory(path)
is_directory(p) == LET st == Stat(p) IN st.err = "ok" /\ fs.kind[st.node] = "dir"

\* fs::directory_iterator dir_itr(path): whether opendir succeeds
can_open(p) == Stat(p).node \in fs.readable

\* The entries the iterator yields, in order.
dir_entries(p) == order[Stat(p).node]

\* ------------------------------------------------------------ load_module

dlopen(file_name) == Stat(file_name).node \in valid

\* Normal return of load_module.
Returned == [type |-> "none", what |-> ""]

\* The build without a loader returning instead of throwing.
MutLoadModuleNoThrow(file_name) ==
    IF variant = "unsupported" \/ dlopen(file_name) THEN Returned
    ELSE [type |-> "std::runtime_error", what |-> "dlopen failed to load"]

\* A loader that refuses a module it has loaded before.
MutLoadModuleOnce(file_name) ==
    IF variant # "unsupported" /\ dlopen(file_name) /\ file_name \notin loaded THEN Returned
    ELSE [type |-> "std::runtime_error", what |-> "dlopen failed to load"]

\* load_module(file_name): Returned, or the exception it throws.
load_module(file_name) ==
    CASE variant = "dlfcn" ->
            IF dlopen(file_name) THEN Returned
            ELSE [type |-> "std::runtime_error", what |-> "dlopen failed to load"]
      [] variant = "windows" ->
            IF dlopen(file_name) THEN Returned
            ELSE [type |-> "std::runtime_error", what |-> "LoadLibrary failed to load"]
      [] OTHER ->
            [type |-> "std::runtime_error", what |-> "Module loading not supported: Cannot load"]

\* The handler written for another exception type.
MutCatchesLogicError(ex) == ex.type \in {"std::logic_error"}

\* catch(const std::exception &err)
Catches(ex) == ex.type \in {"std::exception", "std::runtime_error"}

\* The failure reported twice.
MutErrorDiagsTwice(ex, file_name) ==
    << [kind |-> "error", what |-> ex.what, path |-> file_name],
       [kind |-> "error", what |-> ex.what, path |-> file_name] >>

\* std::cerr << "Error: %s" % err.what()
ErrorDiags(ex, file_name) ==
    << [kind |-> "error", what |-> ex.what, path |-> file_name] >>

\* The missing path passed over in silence.
MutNotFoundSilent(p) == <<>>

\* std::cerr << "Module path \"%s\" not found."
NotFoundDiags(p) == << [kind |-> "not_found", path |-> p] >>

\* --------------------------------------------------------------- actions

Frame(p) == [path |-> p, at |-> "enter", i |-> 0]

Top == stack[Len(stack)]

Pop(stk) == SubSeq(stk, 1, Len(stk) - 1)

Call(p, top) ==
    /\ stack' = Append(stack, Frame(p))
    /\ visits' = Append(visits, [path |-> p, top |-> top])

\* An exception no handler catches leaves every load_path frame and the
\* static block.
Escapes ==
    /\ stack' = <<>>
    /\ pc' = "terminated"

\* The early return left out.
MutNeverBlank(s) == FALSE

\* if (env_module_path == "") return;
IsBlank(s) == s = <<>>

\* Lines 123-140: parse the environment, return on an empty value, split.
ParseEnv ==
    /\ pc = "start"
    /\ env_module_path' = IF envSet THEN env ELSE <<>>
    /\ IF IsBlank(env_module_path')
          THEN /\ pc' = "done"
               /\ UNCHANGED module_paths
          ELSE /\ pc' = "foreach"
               /\ module_paths' = SplitAt(env_module_path', env_path_sep(variant))
    /\ idx' = 1
    /\ UNCHANGED <<inputs, variant, stack, logs, loaded, run, prev>>

\* Lines 143-145: the next module_path, when the previous call returned.
ForeachNext ==
    /\ pc = "foreach"
    /\ stack = <<>>
    /\ IF idx <= Len(module_paths)
          THEN /\ Call(system_complete(module_paths[idx]), TRUE)
               /\ idx' = idx + 1
               /\ pc' = pc
          ELSE /\ pc' = "done"
               /\ UNCHANGED <<stack, visits, idx>>
    /\ UNCHANGED <<inputs, variant, env_module_path, module_paths, attempts, diags,
                   fscalls, loaded, run, prev>>

Entering == pc = "foreach" /\ stack # <<>> /\ Top.at = "enter"

FsCall(op, p) == [op |-> op, path |-> p]

\* Lines 78-81: the path does not exist.
LoadPathNotFound ==
    /\ Entering
    /\ exists(Top.path) = "false"
    /\ fscalls' = Append(fscalls, FsCall("exists", Top.path))
    /\ diags' = diags \o NotFoundDiags(Top.path)
    /\ stack' = Pop(stack)
    /\ UNCHANGED <<inputs, variant, pc, env_module_path, module_paths, idx, visits,
                   attempts, loaded, run, prev>>

\* Line 78: fs::exists throws.
LoadPathStatThrows ==
    /\ Entering
    /\ exists(Top.path) = "throw"
    /\ fscalls' = Append(fscalls, FsCall("exists", Top.path))
    /\ Escapes
    /\ UNCHANGED <<inputs, variant, env_module_path, module_paths, idx, visits,
                   attempts, diags, loaded, run, prev>>

\* Lines 84-86: the path is a directory; open it.
LoadPathOpenDir ==
    /\ Entering
    /\ exists(Top.path) = "true"
    /\ is_directory(Top.path)
    /\ fscalls' = fscalls \o << FsCall("exists", Top.path),
                                FsCall("is_directory", Top.path),
                                FsCall("directory_iterator", Top.path) >>
    /\ IF can_open(Top.path)
          THEN /\ stack' = [stack EXCEPT ![Len(stack)] = [@ EXCEPT !.at = "loop", !.i = 1]]
               /\ pc' = pc
          ELSE Escapes
    /\ UNCHANGED <<inputs, variant, env_module_path, module_paths, idx, visits,
                   attempts, diags, loaded, run, prev>>

\* The recursion made on the directory instead of on its entry.
MutChildIsParent(p, e) == p

\* dir_itr->path()
ChildPath(p, e) == PathAppend(p, <<e.name>>)

\* Lines 85-92: one turn of the directory loop, or its end.
DirNext ==
    /\ pc = "foreach"
    /\ stack # <<>>
    /\ Top.at = "loop"
    /\ IF Top.i <= Len(dir_entries(Top.path))
          THEN /\ stack' = Append([stack EXCEPT ![Len(stack)] = [@ EXCEPT !.i = @ + 1]],
                                  Frame(ChildPath(Top.path, dir_entries(Top.path)[Top.i])))
               /\ visits' = Append(visits,
                      [path |-> ChildPath(Top.path, dir_entries(Top.path)[Top.i]),
                       top |-> FALSE])
          ELSE /\ stack' = Pop(stack)
               /\ UNCHANGED visits
    /\ UNCHANGED <<inputs, variant, pc, env_module_path, module_paths, idx, attempts,
                   diags, fscalls, loaded, run, prev>>

\* Lines 95-101: not a directory; try to load it.
LoadPathFile ==
    /\ Entering
    /\ exists(Top.path) = "true"
    /\ ~is_directory(Top.path)
    /\ fscalls' = fscalls \o << FsCall("exists", Top.path), FsCall("is_directory", Top.path) >>
    /\ LET r == load_module(Top.path) IN
         /\ attempts' = Append(attempts, [file |-> Top.path, ok |-> r = Returned,
                                        entry |-> idx - 1])
         /\ IF r = Returned
               THEN /\ loaded' = loaded \cup {Top.path}
                    /\ stack' = Pop(stack)
                    /\ UNCHANGED <<pc, diags>>
               ELSE /\ loaded' = loaded
                    /\ IF Catches(r)
                          THEN /\ diags' = diags \o ErrorDiags(r, Top.path)
                               /\ stack' = Pop(stack)
                               /\ pc' = pc
                          ELSE /\ Escapes
                               /\ UNCHANGED diags
    /\ UNCHANGED <<inputs, variant, env_module_path, module_paths, idx, visits, run, prev>>

Finished == pc \in {"done", "terminated"}

\* The same scan once more on the same environment and filesystem, with the
\* same build or with the build that has no loader.
Rescan(v) ==
    /\ Finished
    /\ run = 1
    /\ run' = 2
    /\ prev' = [variant |-> variant, pc |-> pc, visits |-> visits, attempts |-> attempts,
                diags |-> diags, fscalls |-> fscalls]
    /\ variant' = v
    /\ loaded' = IF v = variant THEN loaded ELSE {}
    /\ pc' = "start"
    /\ env_module_path' = <<>>
    /\ module_paths' = <<>>
    /\ idx' = 1
    /\ stack' = <<>>
    /\ visits' = <<>>
    /\ attempts' = <<>>
    /\ diags' = <<>>
    /\ fscalls' = <<>>
    /\ UNCHANGED inputs

Init ==
    /\ envSet \in BOOLEAN
    /\ env \in EnvValues
    /\ envSet = FALSE => env = <<>>
    /\ fs \in FileSystems
    /\ order \in OrdersOf(fs)
    /\ variant \in Variants
    /\ valid \in SUBSET (Files(fs) \cap ReachableIn({Root}, Cardinality(Nodes)))
    /\ pc = "start"
    /\ env_module_path = <<>>
    /\ module_paths = <<>>
    /\ idx = 1
    /\ stack = <<>>
    /\ visits = <<>>
    /\ attempts = <<>>
    /\ diags = <<>>
    /\ fscalls = <<>>
    /\ loaded = {}
    /\ run = 1
    /\ prev = [pc |-> "none"]

Scan ==
    \/ ParseEnv
    \/ ForeachNext
    \/ LoadPathNotFound
    \/ LoadPathStatThrows
    \/ LoadPathOpenDir
    \/ DirNext
    \/ LoadPathFile

Next ==
    \/ Scan
    \/ \E v \in {variant, "unsupported"} : Rescan(v)

Spec == Init /\ [][Next]_vars

\* ----------------------------------------------------- reading the logs

IsPrefix(s, t) == Len(s) <= Len(t) /\ s = SubSeq(t, 1, Len(s))

AttemptFiles(a) == [i \in 1..Len(a) |-> a[i].file]

VisitPaths(v) == [i \in 1..Len(v) |-> v[i].path]

DiagPaths(d) == [i \in 1..Len(d) |-> d[i].path]

IsFailed(a) == ~a.ok
IsError(d) == d.kind = "error"
IsNotFoundDiag(d) == d.kind = "not_found"
IsTopVisit(v) == v.top
IsMissing(v) == exists(v.path) = "false"

Occurrences(sq, x) == Cardinality({i \in 1..Len(sq) : sq[i] = x})

\* The visits whose load_path call has got past its first test.
CompletedVisits ==
    IF pc = "foreach" /\ stack # <<>> /\ Top.at = "enter"
      THEN SubSeq(visits, 1, Len(visits) - 1)
      ELSE visits

\* One scan alone.  Every step of it is taken by the one initialising
\* thread, which is never suspended.
ScanSpec == Init /\ [][Scan]_vars /\ WF_vars(Scan)

\* ------------------------------------------ the walk, load outcomes aside

RECURSIVE RefLoadPath(_), RefDir(_, _), RefForeach(_, _)

\* What load_path(p) attempts and whether a filesystem error escapes it,
\* computed from the environment, the filesystem and the enumeration order
\* alone: which loads succeed is not an input.
RefLoadPath(p) ==
    LET found == exists(p) IN
    IF found = "false" THEN [att |-> <<>>, threw |-> FALSE]
    ELSE IF found = "throw" THEN [att |-> <<>>, threw |-> TRUE]
    ELSE IF ~is_directory(p) THEN [att |-> <<p>>, threw |-> FALSE]
    ELSE IF ~can_open(p) THEN [att |-> <<>>, threw |-> TRUE]
    ELSE RefDir(p, 1)

RefDir(p, i) ==
    IF i > Len(dir_entries(p)) THEN [att |-> <<>>, threw |-> FALSE]
    ELSE LET r == RefLoadPath(PathAppend(p, <<dir_entries(p)[i].name>>)) IN
         IF r.threw THEN r
         ELSE LET rest == RefDir(p, i + 1) IN
              [att |-> r.att \o rest.att, threw |-> rest.threw]

RefForeach(paths, i) ==
    IF i > Len(paths) THEN [att |-> <<>>, threw |-> FALSE]
    ELSE LET r == RefLoadPath(system_complete(paths[i])) IN
         IF r.threw THEN r
         ELSE LET rest == RefForeach(paths, i + 1) IN
              [att |-> r.att \o rest.att, threw |-> rest.threw]

ConfiguredValue == IF envSet THEN env ELSE <<>>

ConfiguredPaths == SplitAt(ConfiguredValue, env_path_sep(variant))

ExpectedAttempts ==
    IF ConfiguredValue = <<>> THEN <<>> ELSE RefForeach(ConfiguredPaths, 1).att

\* ----------------------------------------------------------------- claims

\* C1: failure isolation.  The files on which load_module is attempted, in
\* order, are those the walk reaches when load outcomes are left out of
\* account: at every moment a prefix of that sequence, and the whole of it
\* when the scan has ended, whichever of the attempts failed.
C1_FailureIsolation ==
    LET expected == ExpectedAttempts
        attempted == AttemptFiles(attempts)
    IN  /\ IsPrefix(attempted, expected)
        /\ Finished => attempted = expected

\* A scan has ended in which an attempt failed inside /d/c and attempts
\* followed it in the enclosing directory and under a later entry.
C1_Witness ==
    /\ Finished
    /\ \E i, j, k \in 1..Len(attempts) :
          /\ i < j /\ j < k
          /\ ~attempts[i].ok
          /\ attempts[i].file = <<"/", "d", "/", "c", "/", "e">>
          /\ attempts[j].file = <<"/", "d", "/", "b">>
          /\ attempts[j].entry = attempts[i].entry
          /\ attempts[k].entry > attempts[j].entry

\* C3: with the variable unset or empty the scan touches nothing: no
\* filesystem call, no load_path call, no load attempt, no diagnostic.
C3_EmptyIsNoOp ==
    (~envSet \/ env = <<>>) =>
        /\ fscalls = <<>>
        /\ visits = <<>>
        /\ attempts = <<>>
        /\ diags = <<>>
        /\ stack = <<>>
        /\ pc \in {"start", "done"}

\* The block has returned on a variable that is set to the empty string.
C3_Witness == pc = "done" /\ envSet /\ env = <<>> /\ run = 1

\* C5: a visited path that does not exist gets one "not found" diagnostic
\* naming it per visit, is never handed to load_module, is never tested
\* with is_directory or enumerated, and never ends the scan.
C5_NotFound ==
    /\ \A i \in 1..Len(visits) :
          IsMissing(visits[i]) =>
            /\ Occurrences(SelectSeq(diags, IsNotFoundDiag), [kind |-> "not_found", path |-> visits[i].path])
                  = Occurrences(VisitPaths(CompletedVisits), visits[i].path)
            /\ \A a \in 1..Len(attempts) : attempts[a].file # visits[i].path
            /\ \A c \in 1..Len(fscalls) :
                  fscalls[c].path = visits[i].path => fscalls[c].op = "exists"
            /\ \A d \in 1..Len(diags) :
                  diags[d].path = visits[i].path => diags[d].kind = "not_found"
    /\ (pc = "terminated" /\ visits # <<>>) => ~IsMissing(visits[Len(visits)])

\* A scan has returned normally after visiting a missing path both as a
\* configured entry and as a directory entry, with visits after each.
C5_Witness ==
    /\ pc = "done"
    /\ \E i, j \in 1..Len(visits) :
          /\ IsMissing(visits[i]) /\ visits[i].top
          /\ IsMissing(visits[j]) /\ ~visits[j].top
          /\ i < Len(visits) /\ j < Len(visits)

\* C7: the "Error" diagnostics are, in order, exactly the failed load
\* attempts, one each and naming the file; a successful attempt writes
\* nothing; and the diagnostics number the failed attempts plus the
\* visits of paths that do not exist.
C7_DiagnosticsPerAttempt ==
    /\ DiagPaths(SelectSeq(diags, IsError)) = AttemptFiles(SelectSeq(attempts, IsFailed))
    /\ Len(diags) = Len(SelectSeq(attempts, IsFailed)) + Len(SelectSeq(CompletedVisits, IsMissing))

\* A scan has ended with a failed attempt, a successful one after it and a
\* missing path.
C7_Witness ==
    /\ Finished
    /\ \E i, j \in 1..Len(attempts) : i < j /\ ~attempts[i].ok /\ attempts[j].ok
    /\ \E i \in 1..Len(visits) : IsMissing(visits[i])

\* C2: the scan never ends in an error state: no exception leaves
\* load_path or the static block.
C2_NeverEndsInError == pc # "terminated"

\* The paths the top-level load_path calls were made on.
TopVisits == VisitPaths(SelectSeq(visits, IsTopVisit))

\* C4: when the scan of a non-empty value has ended, the top-level visits
\* are the N entries of the value, each made complete, in order, duplicates
\* included.
C4_OneVisitPerEntry ==
    (Finished /\ ConfiguredValue # <<>>) =>
        TopVisits = [i \in 1..Len(ConfiguredPaths) |-> system_complete(ConfiguredPaths[i])]

RECURSIVE NestedFiles(_)
\* The paths at or beneath p that exist and are not directories.
NestedFiles(p) ==
    IF exists(p) # "true" THEN {}
    ELSE IF ~is_directory(p) THEN {p}
    ELSE UNION {NestedFiles(PathAppend(p, <<e.name>>)) : e \in fs.entries[Stat(p).node]}

EntryAttempts(k) == LET Is(a) == a.entry = k IN AttemptFiles(SelectSeq(attempts, Is))

\* C6: once a configured directory has been processed, the attempts made
\* for it are the existing non-directory paths beneath it, each once; and
\* no attempt is ever made on a directory.
C6_RecursiveCoverage ==
    /\ \A a \in 1..Len(attempts) : ~is_directory(attempts[a].file)
    /\ \A k \in 1..Len(module_paths) :
          (/\ k < idx
           /\ (k = idx - 1 => stack = <<>>)
           /\ exists(system_complete(module_paths[k])) = "true"
           /\ is_directory(system_complete(module_paths[k])))
          => /\ \A f \in NestedFiles(system_complete(module_paths[k])) :
                   Occurrences(EntryAttempts(k), f) = 1
             /\ \A i \in 1..Len(EntryAttempts(k)) :
                   EntryAttempts(k)[i] \in NestedFiles(system_complete(module_paths[k]))

AllFailed(a) == \A i \in 1..Len(a) : ~a[i].ok

\* C8: on the same value and filesystem the build without a loader visits
\* the paths the dlfcn build visits and attempts the files it attempts, in
\* the same order; every attempt fails and is reported once, nothing is
\* loaded, and the "not found" diagnostics are those of the dlfcn build.
C8_UnsupportedVariant ==
    (run = 2 /\ variant = "unsupported" /\ prev.variant = "dlfcn" /\ Finished) =>
        /\ visits = prev.visits
        /\ AttemptFiles(attempts) = AttemptFiles(prev.attempts)
        /\ AllFailed(attempts)
        /\ DiagPaths(SelectSeq(diags, IsError)) = AttemptFiles(attempts)
        /\ loaded = {}
        /\ SelectSeq(diags, IsNotFoundDiag) = SelectSeq(prev.diags, IsNotFoundDiag)
        /\ fscalls = prev.fscalls
        /\ pc = prev.pc

\* The build without a loader has rescanned what the dlfcn build scanned,
\* where the dlfcn build loaded a module and met a missing path.
C8_Witness ==
    /\ run = 2 /\ variant = "unsupported" /\ prev.variant = "dlfcn" /\ Finished
    /\ Len(attempts) >= 2
    /\ \E i \in 1..Len(prev.attempts) : prev.attempts[i].ok
    /\ \E i \in 1..Len(diags) : diags[i].kind = "not_found"

\* C9: the scan run a second time by the same build, on the same value,
\* filesystem, enumeration order and per-file outcomes, makes the attempts
\* and writes the diagnostics of the first, in the same order.
C9_Repeatable ==
    (run = 2 /\ variant = prev.variant /\ Finished) =>
        /\ visits = prev.visits
        /\ attempts = prev.attempts
        /\ diags = prev.diags
        /\ fscalls = prev.fscalls
        /\ pc = prev.pc

\* A second scan has ended whose first scan loaded a module, failed on
\* another file and met a missing path.
C9_Witness ==
    /\ run = 2 /\ variant = prev.variant /\ Finished
    /\ \E i, j \in 1..Len(prev.attempts) : prev.attempts[i].ok /\ ~prev.attempts[j].ok
    /\ \E i \in 1..Len(prev.diags) : prev.diags[i].kind = "not_found"

Max(S) == CHOOSE x \in S : \A y \in S : y <= x

RECURSIVE NestDepth(_, _)
\* The directory-nesting depth beneath inode n: 0 for a file, one more than
\* the deepest entry for a directory, an entry that leads back to a
\* directory already on the way (one in `seen`) not followed again.
NestDepth(n, seen) ==
    IF fs.kind[n] # "dir" THEN 0
    ELSE 1 + Max({0} \cup {NestDepth(e.target, seen \cup {n}) :
                            e \in {x \in fs.entries[n] :
                                      x.target # NoNode /\ x.target \notin (seen \cup {n})}})

\* The depth allowed to the load_path calls active now.
DepthBound ==
    IF exists(stack[1].path) = "true" THEN 1 + NestDepth(Stat(stack[1].path).node, {}) ELSE 1

DepthOK == stack # <<>> => Len(stack) <= DepthBound

\* No directory entry leads back to the directory holding it or to one above.
NoBackEntry ==
    \A n \in Nodes :
        n \notin ReachableIn(Targets({n}), Cardinality(Nodes))

\* C10 as stated: the active load_path calls never number more than one
\* plus the directory-nesting depth beneath the configured entry, entries
\* that lead back to an ancestor included.
C10_DepthBoundedAlways == DepthOK

RECURSIVE NestedPaths(_)
\* p and the paths beneath it.
NestedPaths(p) ==
    IF exists(p) # "true" \/ ~is_directory(p) THEN {p}
    ELSE {p} \cup UNION {NestedPaths(PathAppend(p, <<e.name>>)) : e \in fs.entries[Stat(p).node]}

RECURSIVE VisitBound(_)
\* One load_path call for each path at or beneath each configured entry.
VisitBound(paths) ==
    IF paths = <<>> THEN 0
    ELSE Cardinality(NestedPaths(system_complete(Head(paths)))) + VisitBound(Tail(paths))

\* C10 as amended: where no entry leads back to an ancestor, the active
\* load_path calls never number more than one plus the directory-nesting
\* depth beneath the configured entry, and the scan ends: it makes at most
\* one load_path call per path at or beneath each configured entry and
\* is never stuck before it has ended.
C10_BoundedOnTrees ==
    NoBackEntry =>
        /\ DepthOK
        /\ Len(visits) <= VisitBound(module_paths)
        /\ Finished \/ ENABLED Scan

\* Where no entry leads back to an ancestor the scan ends, normally or by
\* an escaping filesystem error.
ScanEndsOnTrees == NoBackEntry => <>Finished

\* On a tree the recursion has reached the file /d/c/e: three active calls,
\* the bound for the entry /d.
C10_Witness ==
    /\ NoBackEntry
    /\ Len(stack) = 3
    /\ Len(stack) = DepthBound

====
